---- MODULE Spec2Model ----
(***************************************************************************)
(* Compliance analysis workflow engine of compliance-agent-poc.            *)
(*                                                                         *)
(* Two specifications:                                                     *)
(*   ScoreSpec  the scoring engine (scoring_service.py) as a pure function *)
(*              applied to bounded violation lists and their permutations; *)
(*   Spec       the workflow: the two LangGraph state graphs of the        *)
(*              repository (agents/orchestration.py, agents/orchestrator.py*)
(*              with agents/graph/nodes.py), the callers in                *)
(*              compliance_engine.py and hitl_service.py, the execution    *)
(*              ledger and the persisted check/violation records.          *)
(***************************************************************************)
EXTENDS Integers, Sequences, FiniteSets, TLC

(***************************************************************************)
(* Bounds of the model.                                                    *)
(***************************************************************************)
MaxScoreLen == 3
MaxChunks == 2
MaxCalls == 3
MaxRuns == 1
MaxLines == 3
MaxAgents == 2
MaxOps == 3
MaxRepeat == 6
MaxTail == 2
MaxCritical == 1
MaxHigh == 4
MaxMedium == 1
ConcurrencyLimit == 3

(***************************************************************************)
(* Values.                                                                 *)
(***************************************************************************)
\* dict.get(key) on a dict without the key
Missing == "<missing>"
\* no value (Python None / empty dict)
None == "<none>"

Max(a, b) == IF a >= b THEN a ELSE b

RECURSIVE Concat(_)
\* the concatenation of a sequence of sequences
Concat(ss) == IF ss = <<>> THEN <<>> ELSE Head(ss) \o Concat(Tail(ss))

(***************************************************************************)
(* Scoring engine: scoring_service.py.                                     *)
(* A category score is a whole number 0..100, exact as a float.  The       *)
(* overall score is a binary64 float: the weights 0.30 and 0.20 are not    *)
(* exact and each product and sum is rounded to 53 bits.  The result       *)
(* carries round(overall_score, 2) in hundredths (overall * 100).          *)
(***************************************************************************)
\* ScoringService.WEIGHTS.get(severity, 0)
WEIGHTS(severity) ==
    CASE severity = "critical" -> 20
      [] severity = "high" -> 10
      [] severity = "medium" -> 3
      [] severity = "low" -> 2
      [] OTHER -> 0

\* ScoringService.CATEGORY_WEIGHTS, in hundredths
CATEGORY_WEIGHTS(category) ==
    CASE category = "irdai" -> 50
      [] category = "brand" -> 30
      [] category = "seo" -> 20

\* violation.get("severity", "low")
SeverityOrLow(v) == IF v.severity = Missing THEN "low" ELSE v.severity

\* the deduction loop of _calculate_category_score: base_score after the
\* violations of the list, taken in list order
RECURSIVE DeductAll(_, _)
DeductAll(base_score, category_violations) ==
    IF category_violations = <<>> THEN base_score
    ELSE DeductAll(base_score - WEIGHTS(SeverityOrLow(Head(category_violations))),
                   Tail(category_violations))

\* faulty variant: only the first violation of the list is looked at
_calculate_category_score_head(violations, category) ==
    IF violations # <<>> /\ Head(violations).category = category
    THEN Max(0, 100 - WEIGHTS(SeverityOrLow(Head(violations))))
    ELSE 100

\* faulty variant: the score is not held at 0
_calculate_category_score_unclamped(violations, category) ==
    DeductAll(100, SelectSeq(violations, LAMBDA v : v.category = category))

_calculate_category_score(violations, category) ==
    LET category_violations == SelectSeq(violations, LAMBDA v : v.category = category)
    IN  Max(0, DeductAll(100, category_violations))

RECURSIVE Pow2(_)
Pow2(k) == IF k = 0 THEN 1 ELSE 2 * Pow2(k - 1)

\* 2^k modulo 10
Pow2Mod10(k) == IF k = 0 THEN 1 ELSE <<2, 4, 8, 6>>[((k - 1) % 4) + 1]

\* a binary64 value written against the decimal it is near:
\* tenths / 10 + err * 2^-55 / 10
Double(tenths, err) == [tenths |-> tenths, err |-> err]

\* the float literals 0.50, 0.30, 0.20 of CATEGORY_WEIGHTS: 0.5 is exact,
\* 0.3 is 5404319552844595 * 2^-54 and 0.2 is 7205759403792794 * 2^-55
DoubleOfWeight(hundredths) ==
    CASE hundredths = 50 -> Double(5, 0)
      [] hundredths = 30 -> Double(3, -4)
      [] hundredths = 20 -> Double(2, 4)

\* x >= 2^k
AtLeastPow2(x, k) ==
    LET l == IF k >= 0 THEN x.tenths ELSE x.tenths * Pow2(-k)
        r == IF k >= 0 THEN 10 * Pow2(k) ELSE 10
    IN  l > r \/ (l = r /\ x.err >= 0)

\* the binary exponent of a value from 0.125 to below 512
Exponent(x) == CHOOSE k \in -3..8 : AtLeastPow2(x, k) /\ ~AtLeastPow2(x, k + 1)

\* the binary64 value nearest to the real x >= 0.125, ties to the even
\* mantissa: ulp is the spacing 2^(e-52) of the floats around x in units of
\* 2^-55 / 10, r2 is x modulo two ulp
RoundUp(x) ==
    LET e == Exponent(x)
        ulp == 10 * Pow2(e + 3)
        r2 == (Pow2(e + 4) * (((x.tenths % 10) * Pow2Mod10(51 - e)) % 10)
               + x.err) % (2 * ulp)
        r == r2 % ulp
    IN  IF r = 0 THEN x
        ELSE IF 2 * r < ulp \/ (2 * r = ulp /\ r2 < ulp)
        THEN Double(x.tenths, x.err - r)
        ELSE Double(x.tenths, x.err + ulp - r)

\* the binary64 value nearest to the real x: rounding is symmetric in the
\* sign, and a sum below 0.125 of floats that are 0 or at least 0.125 is a
\* multiple of 2^-55 and so a float
RoundToDouble(x) ==
    LET a == IF x.tenths < 0 THEN Double(-x.tenths, -x.err) ELSE x
    IN  IF ~AtLeastPow2(a, -3) THEN x
        ELSE IF x.tenths < 0
        THEN Double(-RoundUp(a).tenths, -RoundUp(a).err)
        ELSE RoundUp(x)

\* score * weight in binary64, score a whole number
FloatMul(score, weight) ==
    RoundToDouble(Double(score * weight.tenths, score * weight.err))

\* a + b in binary64
FloatAdd(a, b) == RoundToDouble(Double(a.tenths + b.tenths, a.err + b.err))

\* x >= k and x < k for a whole number k
FloatGE(x, k) == x.tenths > 10 * k \/ (x.tenths = 10 * k /\ x.err >= 0)
FloatLT(x, k) == ~FloatGE(x, k)

\* round(x, 2) in hundredths; err is far below half a hundredth
Round2(x) == 10 * x.tenths

_get_grade(score) ==
    IF FloatGE(score, 90) THEN "A"
    ELSE IF FloatGE(score, 80) THEN "B"
    ELSE IF FloatGE(score, 70) THEN "C"
    ELSE IF FloatGE(score, 60) THEN "D"
    ELSE "F"

\* faulty variant: the status follows the score alone
_get_status_by_score(violations, overall_score) ==
    IF FloatLT(overall_score, 60) THEN "failed"
    ELSE IF FloatLT(overall_score, 80) THEN "flagged"
    ELSE "passed"

\* faulty variant: only a critical violation of a weighted category fails
_get_status_weighted(violations, overall_score) ==
    LET has_critical == \E i \in 1..Len(violations) :
                           /\ violations[i].severity = "critical"
                           /\ violations[i].category \in {"irdai", "brand", "seo"}
    IN  IF has_critical \/ FloatLT(overall_score, 60) THEN "failed"
        ELSE IF FloatLT(overall_score, 80) THEN "flagged"
        ELSE "passed"

_get_status(violations, overall_score) ==
    LET has_critical == \E i \in 1..Len(violations) : violations[i].severity = "critical"
    IN  IF has_critical \/ FloatLT(overall_score, 60) THEN "failed"
        ELSE IF FloatLT(overall_score, 80) THEN "flagged"
        ELSE "passed"

calculate_scores(violations) ==
    LET irdai_score == _calculate_category_score(violations, "irdai")
        brand_score == _calculate_category_score(violations, "brand")
        seo_score == _calculate_category_score(violations, "seo")
        overall_score ==
            FloatAdd(FloatAdd(FloatMul(irdai_score, DoubleOfWeight(CATEGORY_WEIGHTS("irdai"))),
                              FloatMul(brand_score, DoubleOfWeight(CATEGORY_WEIGHTS("brand")))),
                     FloatMul(seo_score, DoubleOfWeight(CATEGORY_WEIGHTS("seo"))))
    IN  [overall |-> Round2(overall_score),
         irdai |-> irdai_score,
         brand |-> brand_score,
         seo |-> seo_score,
         grade |-> _get_grade(overall_score),
         status |-> _get_status(violations, overall_score)]

(***************************************************************************)
(* State.                                                                  *)
(***************************************************************************)
VARIABLES
    docChunks,   \* database: number of content chunks of the submission
    dbRules,     \* database: categories that have an active rule of the project
    subStatus,   \* database: Submission.status
    ledger,      \* database: AgentExecution rows (the execution ledger)
    checks,      \* database: ComplianceCheck rows, each with its Violation rows
    thread,      \* checkpointer: per graph, the saved state of the submission's thread
    call,        \* the API call in flight, or "none"
    pc,          \* where the call in flight is: a node name, "gather", "returned", "raised"
    st,          \* the state values of the graph invocation in flight
    tasks,       \* the dispatcher's evaluation tasks of the invocation in flight
    executed,    \* history: the nodes executed by the invocation in flight
    ncalls,      \* number of API calls made
    nruns,       \* number of runs started
    last,        \* the last finished API call and how it ended
    sv,          \* ScoreSpec: the violation list V
    sp,          \* ScoreSpec: a permutation of V
    sres,        \* ScoreSpec: what calculate_scores returned, and for which list
    strDb,       \* StreamSpec: what the stream's lookups find in the database
    strTotal,    \* StreamSpec: number of segments of the document
    strPc,       \* StreamSpec: where generate_events is
    strI,        \* StreamSpec: the loop index i of generate_events
    strScores,   \* StreamSpec: the line scores of results
    events,      \* StreamSpec: the events emitted so far
    deep,        \* StreamSpec: the DeepAnalysis rows of the check
    registry,    \* ProjectSpec: agent types of the agent registry
    projExists,  \* ProjectSpec: the project has been created
    projAgents,  \* ProjectSpec: the ProjectAgent rows of the project (agent types)
    projLast,    \* ProjectSpec: the last operation and its agent list
    nops,        \* ProjectSpec: number of operations made
    llmPc,       \* StructuredSpec: where generate_structured_response is
    attempt,     \* StructuredSpec: the loop variable attempt
    jsonBound,   \* StructuredSpec: the function's local name json is bound
    history,     \* StructuredSpec: what each attempt's completion call gave
    messages,    \* StructuredSpec: number of entries of current_messages
    invocations, \* StructuredSpec: number of ToolInvocation rows written
    record,      \* StructuredSpec: execution_id and db were passed
    llmReturn    \* StructuredSpec: what the call returned or raised

wvars == <<docChunks, dbRules, subStatus, ledger, checks, thread, call, pc, st,
           tasks, executed, ncalls, nruns, last>>
svars == <<sv, sp, sres>>
evars == <<strDb, strTotal, strPc, strI, strScores, events, deep>>
pvars == <<registry, projExists, projAgents, projLast, nops>>
VARIABLES
    installed,                  \* SetupSpec: langgraph.checkpoint.redis can be imported
    redis_url_ok,               \* SetupSpec: AsyncRedis.from_url accepts settings.redis_url
    checkpointer,               \* SetupSpec: self.checkpointer
    _checkpointer_initialized,  \* SetupSpec: self._checkpointer_initialized
    graph_checkpointer,         \* SetupSpec: the checkpointer compiled into self.graph
    apiLog                      \* SetupSpec: history of the calls of the orchestrator

cvars == <<installed, redis_url_ok, checkpointer, _checkpointer_initialized,
           graph_checkpointer, apiLog>>
lvars == <<llmPc, attempt, jsonBound, history, messages, invocations, record, llmReturn>>
\* the variables of the specifications of single services
ovars == <<lvars, cvars>>
vars == <<docChunks, dbRules, subStatus, ledger, checks, thread, call, pc, st,
          tasks, executed, ncalls, nruns, last, sv, sp, sres,
          strDb, strTotal, strPc, strI, strScores, events, deep,
          registry, projExists, projAgents, projLast, nops,
          llmPc, attempt, jsonBound, history, messages, invocations, record,
          llmReturn, installed, redis_url_ok, checkpointer,
          _checkpointer_initialized, graph_checkpointer, apiLog>>

(***************************************************************************)
(* The two compiled state graphs.                                          *)
(***************************************************************************)
Graphs == {"orchestration", "orchestrator"}

\* the module-level graph the engine and the HITL service import
compliance_graph == "orchestration"

\* nodes in edge order: every edge is unconditional, START -> first, last -> END
NodeOrder(g) ==
    IF g = "orchestration"
    THEN <<"compliance_analyst", "compliance_specialist", "enterprise_architect">>
    ELSE <<"preprocess_node", "dispatch_node", "analysis_node", "scoring_node",
           "refinement_node">>

\* workflow.compile(interrupt_before=[...])
InterruptBefore(g) == IF g = "orchestrator" THEN {"refinement_node"} ELSE {}

\* workflow.compile(checkpointer=...)
HasCheckpointer(g) == g = "orchestrator"

FirstNode(g) == NodeOrder(g)[1]

Successor(g, n) ==
    LET i == CHOOSE k \in 1..Len(NodeOrder(g)) : NodeOrder(g)[k] = n
    IN  IF i = Len(NodeOrder(g)) THEN "END" ELSE NodeOrder(g)[i + 1]

(***************************************************************************)
(* Data.                                                                   *)
(***************************************************************************)
\* dict order of the categories: the three keys _load_active_rules starts
\* with, then any other category met in the rules
CategoryOrder == <<"irdai", "brand", "seo", "other">>

\* the sets of categories with an active rule that the model tries
RuleConfigs == {{}, {"irdai"}, {"brand", "seo"}}

\* ComplianceEngine._load_active_rules: category -> number of active rules;
\* the three default keys are always present
_load_active_rules(rules) ==
    [c \in {"irdai", "brand", "seo"} \cup rules |-> IF c \in rules THEN 1 ELSE 0]

\* the chunks of the submission, in chunk_index order (a chunk is its id)
ChunksOf(n) == [i \in 1..n |-> i]

\* scores == {}
EmptyScores == [empty |-> TRUE]
IsEmptyScores(sc) == "empty" \in DOMAIN sc

\* the state values of a thread nothing was written to
EmptyState ==
    [chunks |-> <<>>, active_rules |-> <<>>, violations |-> <<>>,
     scores |-> EmptyScores, status |-> None, user_feedback |-> None]

\* initial_state of analyze_submission
initial_state ==
    [chunks |-> ChunksOf(docChunks),
     active_rules |-> _load_active_rules(dbRules),
     violations |-> <<>>,
     scores |-> EmptyScores,
     status |-> "running",
     user_feedback |-> None]

NoThread == [exists |-> FALSE, values |-> EmptyState, next |-> None]

\* ViolationSchema.location is None
NoLocation == <<>>

\* what the external reasoning capability may return for a task of category c:
\* nothing, a violation of the task's category with a location of its own
\* making, a violation it files under another category without a location
WrongCategory(c) == IF c = "irdai" THEN "seo" ELSE "irdai"
EvalOutputs(c) ==
    {<<>>,
     <<[category |-> c, severity |-> "critical", location |-> <<"paragraph", 7>>]>>,
     <<[category |-> WrongCategory(c), severity |-> "low", location |-> NoLocation]>>}

\* faulty variant: every key of the rules, with or without a rule
all_categories(rules) ==
    SelectSeq(CategoryOrder, LAMBDA c : c \in DOMAIN rules)

\* active_categories = [cat for cat, r_list in rules.items() if r_list]
active_categories(rules) ==
    SelectSeq(CategoryOrder, LAMBDA c : c \in DOMAIN rules /\ rules[c] > 0)

\* faulty variant: a document without chunks is evaluated as one chunk
TaskListWholeDocument(values) ==
    LET cats == active_categories(values.active_rules)
        chunks == IF values.chunks = <<>> THEN <<0>> ELSE values.chunks
        n == Len(cats)
    IN  [k \in 1..(Len(chunks) * n) |->
            [chunk |-> chunks[((k - 1) \div n) + 1],
             category |-> cats[((k - 1) % n) + 1]]]

\* for chunk in chunks: for cat in active_categories: the (chunk, category) pairs
TaskList(values) ==
    LET cats == active_categories(values.active_rules)
        n == Len(cats)
    IN  [k \in 1..(Len(values.chunks) * n) |->
            [chunk |-> values.chunks[((k - 1) \div n) + 1],
             category |-> cats[((k - 1) % n) + 1]]]

\* chunk_metadata.get("page_number") of a chunk: the odd chunks have one, the
\* others none (0 for a value that is not true)
PageNumber(chunk) == IF chunk % 2 = 1 THEN (chunk + 1) \div 2 ELSE 0

\* f"chunk:{chunk_id}"
PlainLocation(chunk) == <<"chunk", chunk>>

\* loc of process_task: f"chunk:{chunk_id}" and f":page:{page_number}" if
\* the metadata has one
Location(chunk) ==
    IF PageNumber(chunk) > 0
    THEN PlainLocation(chunk) \o <<"page", PageNumber(chunk)>>
    ELSE PlainLocation(chunk)

\* enriched_v of node_compliance_specialist: v.model_dump() with chunk_id,
\* chunk_index and location of the chunk
enriched_v(v, chunk) ==
    [category |-> v.category, severity |-> v.severity, chunk_id |-> chunk,
     chunk_index |-> chunk, location |-> PlainLocation(chunk)]

\* faulty variant: a location of the output is kept
EnrichKeepingLocation(v, chunk) ==
    [category |-> v.category, severity |-> v.severity, chunk_id |-> chunk,
     chunk_index |-> chunk,
     location |-> IF v.location # NoLocation THEN v.location ELSE Location(chunk)]

\* v_dict of process_task: v.model_dump() with chunk_id, chunk_index and
\* location of the task's chunk
Enrich(v, chunk) ==
    [category |-> v.category, severity |-> v.severity, chunk_id |-> chunk,
     chunk_index |-> chunk, location |-> Location(chunk)]

EnrichAll(out, chunk) == [i \in 1..Len(out) |-> Enrich(out[i], chunk)]

TaskViolations(ts) == Concat([i \in 1..Len(ts) |-> ts[i].violations])

(***************************************************************************)
(* LangGraph runtime, as the code relies on it.                            *)
(***************************************************************************)
\* channel reducers: violations is Annotated[..., operator.add], every other
\* key of the input overwrites; user_feedback is not a key of the input
ApplyInput(values, input) ==
    [input EXCEPT !.violations = values.violations \o input.violations,
                  !.user_feedback = values.user_feedback]

GraphOf(c) ==
    IF c \in {"run_workflow", "run_workflow_resume"} THEN "orchestrator"
    ELSE compliance_graph

\* graph.ainvoke(input, config): a new run of the thread from START
BeginInvoke(g, input) ==
    LET old == IF HasCheckpointer(g) /\ thread[g].exists
               THEN thread[g].values ELSE EmptyState
        new == ApplyInput(old, input)
    IN  /\ st' = new
        /\ pc' = FirstNode(g)
        /\ thread' = IF HasCheckpointer(g)
                     THEN [thread EXCEPT ![g] = [exists |-> TRUE, values |-> new,
                                                 next |-> FirstNode(g)]]
                     ELSE thread
        /\ executed' = <<>>
        /\ tasks' = <<>>

\* faulty variant: a thread that has reached END is run again from START
ResumeInvokeRestarting(g, th) ==
    /\ st' = th.values
    /\ pc' = IF ~HasCheckpointer(g) \/ ~th.exists THEN "raised"
             ELSE IF th.next = "END" THEN FirstNode(g)
             ELSE th.next
    /\ executed' = <<>>
    /\ tasks' = <<>>

\* graph.ainvoke(None, config) on the saved thread th of graph g: continues at
\* the pending node; nothing runs when the thread has reached END; raises
\* without a saved thread
ResumeInvoke(g, th) ==
    /\ st' = th.values
    /\ pc' = IF ~HasCheckpointer(g) \/ ~th.exists THEN "raised"
             ELSE IF th.next = "END" THEN "returned"
             ELSE th.next
    /\ executed' = <<>>
    /\ tasks' = <<>>

\* a node returned newst: the super-step is checkpointed and the graph moves
\* on, stopping in front of an interrupt_before node and at END
Advance(n, newst) ==
    LET g == GraphOf(call)
        nxt == Successor(g, n)
    IN  /\ st' = newst
        /\ executed' = Append(executed, n)
        /\ pc' = IF nxt = "END" \/ nxt \in InterruptBefore(g) THEN "returned" ELSE nxt
        /\ thread' = IF HasCheckpointer(g)
                     THEN [thread EXCEPT ![g] = [exists |-> TRUE, values |-> newst,
                                                 next |-> nxt]]
                     ELSE thread

\* the state schema has a user_feedback key: AgentState has, ComplianceState
\* has not
HasFeedbackKey(g) == g = "orchestration"

\* graph.update_state(config, {"user_feedback": fb}): the pending node stays;
\* a key the state schema does not have is dropped
WithFeedback(g, th, fb) ==
    IF HasFeedbackKey(g) THEN [th EXCEPT !.values.user_feedback = fb] ELSE th

Finished(name, outcome, preview) ==
    [name |-> name, outcome |-> outcome, preview |-> preview]

(***************************************************************************)
(* Nodes of agents/orchestration.py (the graph behind compliance_graph).   *)
(***************************************************************************)
InFlight(n) == call # "none" /\ pc = n

db_unchanged == UNCHANGED <<docChunks, dbRules, subStatus, ledger, checks>>
calls_unchanged == UNCHANGED <<call, ncalls, nruns, last>>

node_compliance_analyst ==
    /\ InFlight("compliance_analyst")
    /\ Advance("compliance_analyst", st)
    /\ db_unchanged /\ calls_unchanged
    /\ UNCHANGED <<tasks, svars, evars, pvars, ovars>>

\* history of a task: what agent.analyze gave it
NoAnswer == [evaluated |-> FALSE, raised |-> FALSE, result |-> <<>>]
Answered(out) == [evaluated |-> TRUE, raised |-> FALSE, result |-> out]
AnalyzeRaised == [evaluated |-> TRUE, raised |-> TRUE, result |-> <<>>]

\* a ledger row as AgentExecution(...) creates it
RunningExecution(t) ==
    [agent_type |-> t.category, chunk_index |-> t.chunk, status |-> "running",
     completed_at |-> FALSE, output |-> "none"]

\* one turn of the loops of node_compliance_specialist up to the await:
\* the execution row of the next (chunk, category) pair is added and committed
specialist_spawn ==
    /\ InFlight("compliance_specialist")
    /\ Len(tasks) < Len(TaskList(st))
    /\ \A i \in 1..Len(tasks) : tasks[i].status # "running"
    /\ LET t == TaskList(st)[Len(tasks) + 1]
       IN  /\ ledger' = Append(ledger, RunningExecution(t))
           /\ tasks' = Append(tasks, [chunk |-> t.chunk, category |-> t.category,
                                      status |-> "running", violations |-> <<>>,
                                      exec |-> Len(ledger) + 1, answer |-> NoAnswer])
    /\ UNCHANGED <<docChunks, dbRules, subStatus, checks, thread, pc, st, executed, svars, evars, pvars, ovars>>
    /\ calls_unchanged

\* agent.analyze returned or raised: the try / except of the loop body
specialist_finish ==
    /\ InFlight("compliance_specialist")
    /\ tasks # <<>>
    /\ tasks[Len(tasks)].status = "running"
    /\ LET k == Len(tasks)
           t == tasks[k]
       IN  \E ok \in BOOLEAN : \E out \in EvalOutputs(t.category) :
             IF ok
             THEN /\ ledger' = [ledger EXCEPT ![t.exec].status = "completed",
                                              ![t.exec].output = "result",
                                              ![t.exec].completed_at = TRUE]
                  /\ tasks' = [tasks EXCEPT ![k].status = "completed",
                                            ![k].answer = Answered(out),
                                            ![k].violations =
                                                [i \in 1..Len(out) |->
                                                    enriched_v(out[i], t.chunk)]]
             ELSE /\ out = <<>>
                  /\ ledger' = [ledger EXCEPT ![t.exec].status = "failed",
                                              ![t.exec].output = "error",
                                              ![t.exec].completed_at = TRUE]
                  /\ tasks' = [tasks EXCEPT ![k].status = "failed", ![k].answer = AnalyzeRaised]
    /\ UNCHANGED <<docChunks, dbRules, subStatus, checks, thread, pc, st, executed, svars, evars, pvars, ovars>>
    /\ calls_unchanged

\* the loops are over: return {"violations": new_violations, ...}
specialist_return ==
    /\ InFlight("compliance_specialist")
    /\ Len(tasks) = Len(TaskList(st))
    /\ \A i \in 1..Len(tasks) : tasks[i].status # "running"
    /\ Advance("compliance_specialist",
               [st EXCEPT !.violations = @ \o TaskViolations(tasks)])
    /\ db_unchanged /\ calls_unchanged
    /\ UNCHANGED <<tasks, svars, evars, pvars, ovars>>

node_enterprise_architect ==
    /\ InFlight("enterprise_architect")
    /\ Advance("enterprise_architect",
               [st EXCEPT !.scores = calculate_scores(st.violations)])
    /\ db_unchanged /\ calls_unchanged
    /\ UNCHANGED <<tasks, svars, evars, pvars, ovars>>

(***************************************************************************)
(* Nodes of agents/graph/nodes.py (the graph of ComplianceOrchestrator).   *)
(***************************************************************************)
\* the except branch answers {"status": "failed"} and the graph goes on
preprocess_node ==
    /\ InFlight("preprocess_node")
    /\ \E raised \in BOOLEAN :
         Advance("preprocess_node",
                 IF raised THEN [st EXCEPT !.status = "failed"]
                 ELSE [st EXCEPT !.chunks = ChunksOf(docChunks)])
    /\ db_unchanged /\ calls_unchanged
    /\ UNCHANGED <<tasks, svars, evars, pvars, ovars>>

\* only the categories with a rule are serialized; a failing rule query is
\* not caught by the node
dispatch_node ==
    /\ InFlight("dispatch_node")
    /\ \E raised \in BOOLEAN :
         IF raised
         THEN /\ pc' = "raised"
              /\ UNCHANGED <<st, thread, executed>>
         ELSE Advance("dispatch_node",
                      [st EXCEPT !.active_rules = [c \in dbRules |-> 1]])
    /\ db_unchanged /\ calls_unchanged
    /\ UNCHANGED <<tasks, svars, evars, pvars, ovars>>

RECURSIVE SpawnAll(_, _)
\* the tasks of ts started in list order, each with its ledger row; base is
\* the number of ledger rows before the first
SpawnAll(ts, base) ==
    IF ts = <<>> THEN <<>>
    ELSE Append(SpawnAll(SubSeq(ts, 1, Len(ts) - 1), base),
                [chunk |-> ts[Len(ts)].chunk, category |-> ts[Len(ts)].category,
                 status |-> "running", violations |-> <<>>,
                 exec |-> base + Len(ts), answer |-> NoAnswer])

\* analysis_node up to asyncio.gather: every process_task runs to its await,
\* its execution row added and committed
analysis_node ==
    /\ InFlight("analysis_node")
    /\ tasks' = SpawnAll(TaskList(st), Len(ledger))
    /\ ledger' = ledger \o [i \in 1..Len(TaskList(st)) |-> RunningExecution(TaskList(st)[i])]
    /\ pc' = "gather"
    /\ UNCHANGED <<docChunks, dbRules, subStatus, checks, thread, st, executed, svars, evars, pvars, ovars>>
    /\ calls_unchanged

\* faulty variant: the exception of agent.analyze leaves process_task and
\* asyncio.gather
process_task_uncaught ==
    /\ InFlight("gather")
    /\ \E k \in 1..Len(tasks) :
         /\ tasks[k].status = "running"
         /\ \E ok \in BOOLEAN : \E out \in EvalOutputs(tasks[k].category) :
              IF ok
              THEN /\ ledger' = [ledger EXCEPT ![tasks[k].exec].status = "completed",
                                               ![tasks[k].exec].output = "result",
                                               ![tasks[k].exec].completed_at = TRUE]
                   /\ tasks' = [tasks EXCEPT ![k].status = "completed",
                                             ![k].answer = Answered(out),
                                             ![k].violations =
                                                 EnrichAll(out, tasks[k].chunk)]
                   /\ pc' = pc
              ELSE /\ out = <<>>
                   /\ ledger' = [ledger EXCEPT ![tasks[k].exec].status = "failed",
                                               ![tasks[k].exec].output = "error"]
                   /\ tasks' = [tasks EXCEPT ![k].status = "failed", ![k].answer = AnalyzeRaised]
                   /\ pc' = "raised"
    /\ UNCHANGED <<docChunks, dbRules, subStatus, checks, thread, st, executed, svars, evars, pvars, ovars>>
    /\ calls_unchanged

\* faulty variant: the except branch is also reached after the entry was
\* committed as completed
process_task_relabelling ==
    /\ InFlight("gather")
    /\ \E k \in 1..Len(tasks) :
         /\ tasks[k].status \in {"running", "completed"}
         /\ \E ok \in BOOLEAN : \E out \in EvalOutputs(tasks[k].category) :
              IF ok /\ tasks[k].status = "running"
              THEN /\ ledger' = [ledger EXCEPT ![tasks[k].exec].status = "completed",
                                               ![tasks[k].exec].output = "result",
                                               ![tasks[k].exec].completed_at = TRUE]
                   /\ tasks' = [tasks EXCEPT ![k].status = "completed",
                                             ![k].answer = Answered(out),
                                             ![k].violations =
                                                 EnrichAll(out, tasks[k].chunk)]
              ELSE /\ out = <<>>
                   /\ ledger' = [ledger EXCEPT ![tasks[k].exec].status = "failed",
                                               ![tasks[k].exec].output = "error"]
                   /\ tasks' = [tasks EXCEPT ![k].status = "failed",
                                             ![k].answer = AnalyzeRaised,
                                             ![k].violations = <<>>]
    /\ UNCHANGED <<docChunks, dbRules, subStatus, checks, thread, pc, st, executed, svars, evars, pvars, ovars>>
    /\ calls_unchanged

\* a process_task ends, in any order: agent.analyze returned or raised
process_task ==
    /\ InFlight("gather")
    /\ \E k \in 1..Len(tasks) :
         /\ tasks[k].status = "running"
         /\ \E ok \in BOOLEAN : \E out \in EvalOutputs(tasks[k].category) :
              IF ok
              THEN /\ ledger' = [ledger EXCEPT ![tasks[k].exec].status = "completed",
                                               ![tasks[k].exec].output = "result",
                                               ![tasks[k].exec].completed_at = TRUE]
                   /\ tasks' = [tasks EXCEPT ![k].status = "completed",
                                             ![k].answer = Answered(out),
                                             ![k].violations =
                                                 EnrichAll(out, tasks[k].chunk)]
              ELSE /\ out = <<>>
                   /\ ledger' = [ledger EXCEPT ![tasks[k].exec].status = "failed",
                                               ![tasks[k].exec].output = "error"]
                   /\ tasks' = [tasks EXCEPT ![k].status = "failed", ![k].answer = AnalyzeRaised]
    /\ UNCHANGED <<docChunks, dbRules, subStatus, checks, thread, pc, st, executed, svars, evars, pvars, ovars>>
    /\ calls_unchanged

\* asyncio.gather returned: the results are joined in task order
\* faulty variant: the node returns while tasks are still running
analysis_join_racing ==
    /\ InFlight("gather")
    /\ Advance("analysis_node",
               [st EXCEPT !.violations = @ \o TaskViolations(tasks)])
    /\ db_unchanged /\ calls_unchanged
    /\ UNCHANGED <<tasks, svars, evars, pvars, ovars>>

\* the return of asyncio.gather and of analysis_node: every task has returned
analysis_join ==
    /\ InFlight("gather")
    /\ \A i \in 1..Len(tasks) : tasks[i].status # "running"
    /\ Advance("analysis_node",
               [st EXCEPT !.violations = @ \o TaskViolations(tasks)])
    /\ db_unchanged /\ calls_unchanged
    /\ UNCHANGED <<tasks, svars, evars, pvars, ovars>>

\* faulty variant: the node answers the violations it read as well, which the
\* reducer appends to the list
scoring_node_echoing ==
    /\ InFlight("scoring_node")
    /\ Advance("scoring_node",
               [st EXCEPT !.scores = calculate_scores(st.violations),
                          !.violations = @ \o @])
    /\ db_unchanged /\ calls_unchanged
    /\ UNCHANGED <<tasks, svars, evars, pvars, ovars>>

\* faulty variant: the node answers the list without its low violations
scoring_node_filtering ==
    /\ InFlight("scoring_node")
    /\ Advance("scoring_node",
               [st EXCEPT !.scores = calculate_scores(st.violations),
                          !.violations = SelectSeq(@, LAMBDA v : v.severity # "low")])
    /\ db_unchanged /\ calls_unchanged
    /\ UNCHANGED <<tasks, svars, evars, pvars, ovars>>

scoring_node ==
    /\ InFlight("scoring_node")
    /\ Advance("scoring_node",
               [st EXCEPT !.scores = calculate_scores(st.violations)])
    /\ db_unchanged /\ calls_unchanged
    /\ UNCHANGED <<tasks, svars, evars, pvars, ovars>>

\* faulty variant: the review step drops the violations and scores again
refinement_node_rescoring ==
    /\ InFlight("refinement_node")
    /\ Advance("refinement_node",
               [st EXCEPT !.violations = <<>>, !.scores = calculate_scores(<<>>)])
    /\ db_unchanged /\ calls_unchanged
    /\ UNCHANGED <<tasks, svars, evars, pvars, ovars>>

refinement_node ==
    /\ InFlight("refinement_node")
    /\ Advance("refinement_node", st)
    /\ db_unchanged /\ calls_unchanged
    /\ UNCHANGED <<tasks, svars, evars, pvars, ovars>>

(***************************************************************************)
(* Callers: compliance_engine.py, hitl_service.py, orchestrator.py.        *)
(***************************************************************************)
Idle == call = "none" /\ ncalls < MaxCalls

\* what the human reviewer may send
Feedbacks == {"approve"}

\* ComplianceEngine.persist_results: the ComplianceCheck row with its
\* Violation rows, one per violation of the state
persist_results(values) ==
    LET sc == values.scores
        e == IsEmptyScores(sc)
    IN  [overall |-> IF e THEN 0 ELSE sc.overall,
         irdai |-> IF e THEN 0 ELSE sc.irdai,
         brand |-> IF e THEN 0 ELSE sc.brand,
         seo |-> IF e THEN 0 ELSE sc.seo,
         status |-> IF e THEN "unknown" ELSE sc.status,
         grade |-> IF e THEN "F" ELSE sc.grade,
         violations |-> values.violations]

\* analyze_submission up to the first node of the graph; a failing rule or
\* content query ends the call in the except branch
analyze_submission ==
    /\ Idle /\ nruns < MaxRuns
    /\ ncalls' = ncalls + 1
    /\ nruns' = nruns + 1
    /\ \E raised \in BOOLEAN :
         IF raised
         THEN /\ subStatus' = "failed"
              /\ last' = Finished("analyze_submission", "raised", EmptyScores)
              /\ UNCHANGED <<call, pc, st, thread, executed, tasks>>
         ELSE /\ subStatus' = "analyzing"
              /\ call' = "analyze_submission"
              /\ BeginInvoke(compliance_graph, initial_state)
              /\ UNCHANGED last
    /\ UNCHANGED <<docChunks, dbRules, ledger, checks, svars, evars, pvars, ovars>>

\* analyze_submission after ainvoke: get_state, snapshot.next, persist_results,
\* and the except branch
AnalyzeReturn ==
    LET g == compliance_graph IN
    IF pc = "raised" \/ ~HasCheckpointer(g)
    THEN /\ subStatus' = "failed"
         /\ last' = Finished("analyze_submission", "raised", EmptyScores)
         /\ UNCHANGED checks
    ELSE IF thread[g].next # "END"
    THEN /\ subStatus' = "waiting_for_review"
         /\ last' = Finished("analyze_submission", "returned", EmptyScores)
         /\ UNCHANGED checks
    ELSE /\ checks' = Append(checks, persist_results(st))
         /\ subStatus' = "analyzed"
         /\ last' = Finished("analyze_submission", "returned", EmptyScores)

\* ComplianceEngine.resume_submission up to the pending node: update_state
\* raises without a checkpointer and the except branch re-raises
resume_submission ==
    /\ Idle
    /\ ncalls' = ncalls + 1
    /\ LET g == compliance_graph IN
       \E fb \in Feedbacks :
         IF ~HasCheckpointer(g) \/ ~thread[g].exists
         THEN /\ last' = Finished("resume_submission", "raised", EmptyScores)
              /\ UNCHANGED <<call, pc, st, thread, executed, tasks>>
         ELSE /\ thread' = [thread EXCEPT ![g] = WithFeedback(g, @, fb)]
              /\ ResumeInvoke(g, WithFeedback(g, thread[g], fb))
              /\ call' = "resume_submission"
              /\ UNCHANGED last
    /\ UNCHANGED <<docChunks, dbRules, subStatus, ledger, checks, nruns, svars, evars, pvars, ovars>>

\* ComplianceEngine.resume_submission after ainvoke
EngineResumeReturn ==
    LET g == compliance_graph IN
    IF pc = "raised"
    THEN /\ last' = Finished("resume_submission", "raised", EmptyScores)
         /\ UNCHANGED <<checks, subStatus>>
    ELSE IF thread[g].next # "END"
    THEN /\ last' = Finished("resume_submission", "returned", EmptyScores)
         /\ UNCHANGED <<checks, subStatus>>
    ELSE /\ checks' = Append(checks, persist_results(st))
         /\ subStatus' = "analyzed"
         /\ last' = Finished("resume_submission", "returned", EmptyScores)

\* HITLService.resume_submission up to the pending node: aupdate_state raises
\* without a checkpointer; the except branch rolls back and re-raises
hitl_resume_submission ==
    /\ Idle
    /\ ncalls' = ncalls + 1
    /\ LET g == compliance_graph IN
       \E fb \in Feedbacks :
         IF ~HasCheckpointer(g) \/ ~thread[g].exists
         THEN /\ last' = Finished("hitl_resume_submission", "raised", EmptyScores)
              /\ UNCHANGED <<call, pc, st, thread, executed, tasks>>
         ELSE /\ thread' = [thread EXCEPT ![g] = WithFeedback(g, @, fb)]
              /\ ResumeInvoke(g, WithFeedback(g, thread[g], fb))
              /\ call' = "hitl_resume_submission"
              /\ UNCHANGED last
    /\ UNCHANGED <<docChunks, dbRules, subStatus, ledger, checks, nruns, svars, evars, pvars, ovars>>

\* HITLService.resume_submission after ainvoke: persist_results whatever the
\* snapshot says
HitlResumeReturn ==
    IF pc = "raised"
    THEN /\ last' = Finished("hitl_resume_submission", "raised", EmptyScores)
         /\ UNCHANGED <<checks, subStatus>>
    ELSE /\ checks' = Append(checks, persist_results(st))
         /\ subStatus' = "analyzed"
         /\ last' = Finished("hitl_resume_submission", "returned", EmptyScores)

\* faulty variant: the status of the answer is written to the submission
get_interim_results_marking ==
    /\ Idle
    /\ ncalls' = ncalls + 1
    /\ last' = Finished("get_interim_results", "returned", EmptyScores)
    /\ subStatus' = "waiting_for_review"
    /\ UNCHANGED <<docChunks, dbRules, ledger, checks, thread, call, pc,
                   st, tasks, executed, nruns, svars, evars, pvars, ovars>>

\* ComplianceEngine.get_interim_results: every exception answers None
get_interim_results ==
    /\ Idle
    /\ ncalls' = ncalls + 1
    /\ LET g == compliance_graph IN
       last' = IF ~HasCheckpointer(g) \/ ~thread[g].exists
               THEN Finished("get_interim_results", "returned", EmptyScores)
               ELSE Finished("get_interim_results", "returned",
                             calculate_scores(thread[g].values.violations))
    /\ UNCHANGED <<docChunks, dbRules, subStatus, ledger, checks, thread, call, pc,
                   st, tasks, executed, nruns, svars, evars, pvars, ovars>>

\* ComplianceOrchestrator.run_workflow(initial_state, config)
run_workflow ==
    /\ Idle /\ nruns < MaxRuns
    /\ ncalls' = ncalls + 1
    /\ nruns' = nruns + 1
    /\ call' = "run_workflow"
    /\ BeginInvoke("orchestrator", initial_state)
    /\ UNCHANGED <<docChunks, dbRules, subStatus, ledger, checks, last, svars, evars, pvars, ovars>>

\* ComplianceOrchestrator.run_workflow(None, config): resume the thread
run_workflow_resume ==
    /\ Idle
    /\ thread["orchestrator"].exists
    /\ ncalls' = ncalls + 1
    /\ call' = "run_workflow_resume"
    /\ ResumeInvoke("orchestrator", thread["orchestrator"])
    /\ UNCHANGED <<docChunks, dbRules, subStatus, ledger, checks, thread, nruns,
                   last, svars, evars, pvars, ovars>>

\* ComplianceOrchestrator.update_state(config, {"user_feedback": fb})
update_state ==
    /\ Idle
    /\ thread["orchestrator"].exists
    /\ ncalls' = ncalls + 1
    /\ \E fb \in Feedbacks :
         thread' = [thread EXCEPT !["orchestrator"] = WithFeedback("orchestrator", @, fb)]
    /\ last' = Finished("update_state", "returned", EmptyScores)
    /\ UNCHANGED <<docChunks, dbRules, subStatus, ledger, checks, call, pc, st,
                   tasks, executed, nruns, svars, evars, pvars, ovars>>

\* run_workflow hands back what ainvoke returned or raised
OrchestratorReturn ==
    /\ last' = Finished(call, pc, EmptyScores)
    /\ UNCHANGED <<checks, subStatus>>

\* the graph invocation of the call in flight is over: the rest of the caller
CallReturn ==
    /\ call # "none"
    /\ pc \in {"returned", "raised"}
    /\ CASE call = "analyze_submission" -> AnalyzeReturn
         [] call = "resume_submission" -> EngineResumeReturn
         [] call = "hitl_resume_submission" -> HitlResumeReturn
         [] OTHER -> OrchestratorReturn
    /\ call' = "none"
    /\ pc' = "idle"
    /\ UNCHANGED <<docChunks, dbRules, ledger, thread, st, tasks, executed, ncalls,
                   nruns, svars, evars, pvars, ovars>>

(***************************************************************************)
(* The workflow specification.                                             *)
(***************************************************************************)
NotScored == [computed |-> FALSE, result |-> EmptyScores]

\* no stream has been requested
StreamIdle ==
    /\ strDb = "ok"
    /\ strTotal = 0
    /\ strPc = "idle"
    /\ strI = 0
    /\ strScores = <<>>
    /\ events = <<>>
    /\ deep = <<>>

\* the agent types a caller may name; "ghost" is in no registry
AgentTypes == {"compliance", "analytics", "voice", "ghost"}

\* project.agents without rows: agent type -> number of ProjectAgent rows
NoAgents == [t \in AgentTypes |-> 0]

\* no project has been created
ProjectIdle ==
    /\ registry = {}
    /\ projExists = FALSE
    /\ projAgents = NoAgents
    /\ projLast = [op |-> "none", agents |-> <<>>, before |-> NoAgents]
    /\ nops = 0

\* one submission, not analysed yet; its chunks and the project's active
\* rules are any of the bounded choices
\* generate_structured_response has neither returned nor raised
NoReturn == [kind |-> "none", value |-> "none"]

\* generate_structured_response is not called
LlmIdle ==
    /\ llmPc = "idle"
    /\ attempt = 0
    /\ jsonBound = FALSE
    /\ history = <<>>
    /\ messages = 0
    /\ invocations = 0
    /\ record = FALSE
    /\ llmReturn = NoReturn

\* an orchestrator just constructed with a Redis saver, never called
SetupIdle ==
    /\ installed = TRUE
    /\ redis_url_ok = TRUE
    /\ checkpointer = "redis"
    /\ _checkpointer_initialized = FALSE
    /\ graph_checkpointer = "redis"
    /\ apiLog = <<>>

OthersIdle == LlmIdle /\ SetupIdle

Init ==
    /\ docChunks \in 0..MaxChunks
    /\ dbRules \in RuleConfigs
    /\ subStatus = "pending"
    /\ ledger = <<>>
    /\ checks = <<>>
    /\ thread = [g \in Graphs |-> NoThread]
    /\ call = "none"
    /\ pc = "idle"
    /\ st = EmptyState
    /\ tasks = <<>>
    /\ executed = <<>>
    /\ ncalls = 0
    /\ nruns = 0
    /\ last = Finished("none", "none", EmptyScores)
    /\ sv = <<>>
    /\ sp = <<>>
    /\ sres = NotScored
    /\ StreamIdle
    /\ ProjectIdle
    /\ OthersIdle

Next ==
    \/ analyze_submission
    \/ resume_submission
    \/ hitl_resume_submission
    \/ get_interim_results
    \/ run_workflow
    \/ run_workflow_resume
    \/ update_state
    \/ CallReturn
    \/ node_compliance_analyst
    \/ specialist_spawn
    \/ specialist_finish
    \/ specialist_return
    \/ node_enterprise_architect
    \/ preprocess_node
    \/ dispatch_node
    \/ analysis_node
    \/ process_task
    \/ analysis_join
    \/ scoring_node
    \/ refinement_node

Spec == Init /\ [][Next]_vars

(***************************************************************************)
(* The re-run specification: the runs of Spec on a one-chunk submission    *)
(* with an irdai rule, and run_workflow called again with the same         *)
(* thread id.                                                              *)
(***************************************************************************)
MaxReruns == 1

RerunInit ==
    /\ Init
    /\ docChunks = 1
    /\ dbRules = {"irdai"}

\* ComplianceOrchestrator.run_workflow(initial_state, config) with the
\* thread_id of a submission whose thread has a checkpoint
run_workflow_again ==
    /\ Idle
    /\ thread["orchestrator"].exists
    /\ nruns < MaxRuns + MaxReruns
    /\ ncalls' = ncalls + 1
    /\ nruns' = nruns + 1
    /\ call' = "run_workflow"
    /\ BeginInvoke("orchestrator", initial_state)
    /\ UNCHANGED <<docChunks, dbRules, subStatus, ledger, checks, last, svars, evars, pvars, ovars>>

RerunNext ==
    \/ Next
    \/ run_workflow_again

RerunSpec == RerunInit /\ [][RerunNext]_vars

(***************************************************************************)
(* The fault specification: the runs of Spec, and the commits of the       *)
(* execution ledger may raise.                                             *)
(***************************************************************************)
\* the ledger commits that raise in one run of a graph
MaxFaults == 1

\* the tasks of the run that a raising commit has ended
Faulted == {k \in 1..Len(tasks) :
               tasks[k].status = "failed" /\ ~tasks[k].answer.raised}

\* the task record of a process_task that ended without a result
Ended(t, answer) ==
    [chunk |-> t.chunk, category |-> t.category, status |-> "failed",
     violations |-> <<>>, exec |-> 0, answer |-> answer]

\* the tasks of ts started in list order, the commit of the row of task f
\* raising: the outer except of that process_task logs and the finally
\* returns the empty task_violations, agent.analyze never called
SpawnAllBut(ts, base, f) ==
    [i \in 1..Len(ts) |->
        IF i = f THEN Ended(ts[i], NoAnswer)
        ELSE [chunk |-> ts[i].chunk, category |-> ts[i].category,
              status |-> "running", violations |-> <<>>,
              exec |-> base + (IF i < f THEN i ELSE i - 1), answer |-> NoAnswer]]

\* the sequence s without its element f
Without(s, f) ==
    [i \in 1..(Len(s) - 1) |-> IF i < f THEN s[i] ELSE s[i + 1]]

\* analysis_node up to asyncio.gather, task_db.commit() of one new row raising
analysis_node_commit_fault ==
    /\ InFlight("analysis_node")
    /\ MaxFaults > 0
    /\ \E f \in 1..Len(TaskList(st)) :
         /\ tasks' = SpawnAllBut(TaskList(st), Len(ledger), f)
         /\ ledger' = ledger \o Without([i \in 1..Len(TaskList(st)) |->
                                            RunningExecution(TaskList(st)[i])], f)
    /\ pc' = "gather"
    /\ UNCHANGED <<docChunks, dbRules, subStatus, checks, thread, st, executed, svars, evars, pvars, ovars>>
    /\ calls_unchanged

\* a process_task ends: agent.analyze returned out, the commit of the
\* completed row raises before the violations are collected; the except
\* branch marks the row failed and commits again, which succeeds (recovered)
\* or raises into the outer except; task_violations is returned empty
process_task_commit_fault ==
    /\ InFlight("gather")
    /\ Cardinality(Faulted) < MaxFaults
    /\ \E k \in 1..Len(tasks) :
         /\ tasks[k].status = "running"
         /\ \E out \in EvalOutputs(tasks[k].category) : \E recovered \in BOOLEAN :
              /\ ledger' = IF recovered
                            THEN [ledger EXCEPT ![tasks[k].exec].status = "failed",
                                                ![tasks[k].exec].output = "error"]
                            ELSE ledger
              /\ tasks' = [tasks EXCEPT ![k].status = "failed",
                                        ![k].answer = Answered(out),
                                        ![k].violations = <<>>]
    /\ UNCHANGED <<docChunks, dbRules, subStatus, checks, thread, pc, st, executed, svars, evars, pvars, ovars>>
    /\ calls_unchanged

\* node_compliance_specialist: db.commit() of the new row raises outside any
\* try, the node raises before agent.analyze
specialist_spawn_commit_fault ==
    /\ InFlight("compliance_specialist")
    /\ Cardinality(Faulted) < MaxFaults
    /\ Len(tasks) < Len(TaskList(st))
    /\ \A i \in 1..Len(tasks) : tasks[i].status # "running"
    /\ tasks' = Append(tasks, Ended(TaskList(st)[Len(tasks) + 1], NoAnswer))
    /\ pc' = "raised"
    /\ UNCHANGED <<docChunks, dbRules, subStatus, ledger, checks, thread, st, executed, svars, evars, pvars, ovars>>
    /\ calls_unchanged

\* node_compliance_specialist: agent.analyze returned out, db.commit() of the
\* completed row raises before the loop over result.violations; the except
\* branch commits the row as failed (recovered) or raises out of the node
specialist_finish_commit_fault ==
    /\ InFlight("compliance_specialist")
    /\ Cardinality(Faulted) < MaxFaults
    /\ tasks # <<>>
    /\ tasks[Len(tasks)].status = "running"
    /\ LET k == Len(tasks)
           t == tasks[k]
       IN  \E out \in EvalOutputs(t.category) : \E recovered \in BOOLEAN :
             /\ tasks' = [tasks EXCEPT ![k].status = "failed",
                                       ![k].answer = Answered(out),
                                       ![k].violations = <<>>]
             /\ IF recovered
                THEN /\ ledger' = [ledger EXCEPT ![t.exec].status = "failed",
                                                 ![t.exec].output = "error",
                                                 ![t.exec].completed_at = TRUE]
                     /\ pc' = pc
                ELSE /\ ledger' = ledger
                     /\ pc' = "raised"
    /\ UNCHANGED <<docChunks, dbRules, subStatus, checks, thread, st, executed, svars, evars, pvars, ovars>>
    /\ calls_unchanged

FaultNext ==
    \/ Next
    \/ analysis_node_commit_fault
    \/ process_task_commit_fault
    \/ specialist_spawn_commit_fault
    \/ specialist_finish_commit_fault

FaultSpec == Init /\ [][FaultNext]_vars

(***************************************************************************)
(* The scoring specification: calculate_scores on bounded violation lists. *)
(***************************************************************************)
\* the violations the lists are made of: the three scored categories and one
\* the engine does not know; severities with a weight, and none
ViolationShapes ==
    [category : {"irdai", "brand", "seo", "other"},
     severity : {"critical", "high", Missing}]

SeqsUpTo(S, n) == UNION {[1..k -> S] : k \in 0..n}

Swap(s, i) == [s EXCEPT ![i] = s[i + 1], ![i + 1] = s[i]]

ScoreInit ==
    /\ sv \in SeqsUpTo(ViolationShapes, MaxScoreLen)
    /\ sp = sv
    /\ sres = NotScored
    /\ docChunks = 0
    /\ dbRules = {}
    /\ subStatus = "pending"
    /\ ledger = <<>>
    /\ checks = <<>>
    /\ thread = [g \in Graphs |-> NoThread]
    /\ call = "none"
    /\ pc = "idle"
    /\ st = EmptyState
    /\ tasks = <<>>
    /\ executed = <<>>
    /\ ncalls = 0
    /\ nruns = 0
    /\ last = Finished("none", "none", EmptyScores)
    /\ StreamIdle
    /\ ProjectIdle
    /\ OthersIdle

\* the caller hands the same violations over in another order
Permute ==
    /\ \E i \in 1..(Len(sp) - 1) : sp' = Swap(sp, i)
    /\ sres' = NotScored
    /\ UNCHANGED <<sv, wvars, evars, pvars, ovars>>

\* scoring_service.calculate_scores(sp)
Score ==
    /\ sres' = [computed |-> TRUE, result |-> calculate_scores(sp)]
    /\ UNCHANGED <<sv, sp, wvars, evars, pvars, ovars>>

ScoreNext == Permute \/ Score

ScoreSpec == ScoreInit /\ [][ScoreNext]_vars

(***************************************************************************)
(* The scoring specification over long lists: calculate_scores on lists    *)
(* that repeat one violation, so that a category can lose more than 100.   *)
(***************************************************************************)
Severities == {"critical", "high", "medium", "low"}

\* the violations a list ends with: any category, any severity or none
TailShapes ==
    [category : {"irdai", "brand", "seo", "other"},
     severity : Severities \cup {Missing}]

\* the violation a list repeats
HeavyShapes ==
    [category : {"irdai", "brand", "seo"}, severity : {"critical", "high"}]

Replicate(v, n) == [i \in 1..n |-> v]

LongInit ==
    /\ \E h \in HeavyShapes : \E n \in 0..MaxRepeat :
         \E t \in SeqsUpTo(TailShapes, MaxTail) :
            sv = Replicate(h, n) \o t
    /\ sp = sv
    /\ sres = NotScored
    /\ docChunks = 0
    /\ dbRules = {}
    /\ subStatus = "pending"
    /\ ledger = <<>>
    /\ checks = <<>>
    /\ thread = [g \in Graphs |-> NoThread]
    /\ call = "none"
    /\ pc = "idle"
    /\ st = EmptyState
    /\ tasks = <<>>
    /\ executed = <<>>
    /\ ncalls = 0
    /\ nruns = 0
    /\ last = Finished("none", "none", EmptyScores)
    /\ StreamIdle
    /\ ProjectIdle
    /\ OthersIdle

LongNext == Score

LongSpec == LongInit /\ [][LongNext]_vars

(***************************************************************************)
(* The scoring specification at the thresholds: calculate_scores on lists   *)
(* given by the number of critical, high and medium violations of each      *)
(* weighted category, so that the overall score meets 60, 70, 80 and 90.    *)
(***************************************************************************)
\* c critical, h high and m medium violations of a category
CategoryList(category, c, h, m) ==
    Replicate([category |-> category, severity |-> "critical"], c)
    \o Replicate([category |-> category, severity |-> "high"], h)
    \o Replicate([category |-> category, severity |-> "medium"], m)

CategoryLists(category) ==
    {CategoryList(category, c, h, m) :
        c \in 0..MaxCritical, h \in 0..MaxHigh, m \in 0..MaxMedium}

GradeInit ==
    /\ \E i \in CategoryLists("irdai") : \E b \in CategoryLists("brand") :
         \E s \in CategoryLists("seo") : sv = i \o b \o s
    /\ sp = sv
    /\ sres = NotScored
    /\ docChunks = 0
    /\ dbRules = {}
    /\ subStatus = "pending"
    /\ ledger = <<>>
    /\ checks = <<>>
    /\ thread = [g \in Graphs |-> NoThread]
    /\ call = "none"
    /\ pc = "idle"
    /\ st = EmptyState
    /\ tasks = <<>>
    /\ executed = <<>>
    /\ ncalls = 0
    /\ nruns = 0
    /\ last = Finished("none", "none", EmptyScores)
    /\ StreamIdle
    /\ ProjectIdle
    /\ OthersIdle

GradeNext == Score

GradeSpec == GradeInit /\ [][GradeNext]_vars

(***************************************************************************)
(* The streaming specification: stream_deep_analysis.generate_events of     *)
(* api/routes/compliance.py; an action is the code between two yields.      *)
(***************************************************************************)
\* what calculate_line_score may give a line (round(line_score, 2))
LineScores == {0, 40, 100}

\* a DeepAnalysis row left by an earlier analysis of the check
OldDeep == [total_lines |-> 1, average_score |-> 10000, min_score |-> 100,
            max_score |-> 100]

\* round((i / total) * 100, 1), in tenths
Progress(i, total) == (2000 * i + total) \div (2 * total)

RECURSIVE Sum(_)
Sum(s) == IF s = <<>> THEN 0 ELSE Head(s) + Sum(Tail(s))

Min(a, b) == IF a <= b THEN a ELSE b

RECURSIVE MinOf(_)
MinOf(s) == IF Len(s) = 1 THEN s[1] ELSE Min(Head(s), MinOf(Tail(s)))

RECURSIVE MaxOf(_)
MaxOf(s) == IF Len(s) = 1 THEN s[1] ELSE Max(Head(s), MaxOf(Tail(s)))

\* round(sum(scores) / len(scores), 2), in hundredths
Average(scores) == (200 * Sum(scores) + Len(scores)) \div (2 * Len(scores))

ErrorEvent == [status |-> "error"]
EmptyCompleteEvent == [status |-> "complete", total_lines |-> 0]
StartedEvent(total) == [status |-> "started", total_lines |-> total]
ProcessingEvent(i, total) ==
    [status |-> "processing", progress |-> Progress(i, total), current_index |-> i + 1]
ClassifiedEvent(i, total, score) ==
    [status |-> "classified", progress |-> Progress(i + 1, total),
     current_index |-> i + 1, score |-> score]
CompleteEvent(total, scores) ==
    [status |-> "complete", progress |-> 1000, total_lines |-> total,
     average_score |-> Average(scores), min_score |-> MinOf(scores),
     max_score |-> MaxOf(scores)]

StreamInit ==
    /\ strDb \in {"no_submission", "no_check", "ok"}
    /\ strTotal \in 0..MaxLines
    /\ deep \in IF strDb = "ok" THEN {<<>>, <<OldDeep>>} ELSE {<<>>}
    /\ strPc = "idle"
    /\ strI = 0
    /\ strScores = <<>>
    /\ events = <<>>
    /\ docChunks = 0
    /\ dbRules = {}
    /\ subStatus = "pending"
    /\ ledger = <<>>
    /\ checks = <<>>
    /\ thread = [g \in Graphs |-> NoThread]
    /\ call = "none"
    /\ pc = "idle"
    /\ st = EmptyState
    /\ tasks = <<>>
    /\ executed = <<>>
    /\ ncalls = 0
    /\ nruns = 0
    /\ last = Finished("none", "none", EmptyScores)
    /\ sv = <<>>
    /\ sp = <<>>
    /\ sres = NotScored
    /\ ProjectIdle
    /\ OthersIdle

stream_unchanged == UNCHANGED <<strDb, strTotal, wvars, svars, pvars, ovars>>

\* generate_events up to its first yield
stream_start ==
    /\ strPc = "idle"
    /\ \E raised \in BOOLEAN :
         IF raised \/ strDb # "ok"
         THEN /\ events' = Append(events, ErrorEvent)
              /\ strPc' = "done"
         ELSE IF strTotal = 0
         THEN /\ events' = Append(events, EmptyCompleteEvent)
              /\ strPc' = "done"
         ELSE /\ events' = Append(events, StartedEvent(strTotal))
              /\ strPc' = "loop"
    /\ UNCHANGED <<strI, strScores, deep>>
    /\ stream_unchanged

\* the head of the loop body: the processing event of segment i
stream_processing ==
    /\ strPc = "loop"
    /\ strI < strTotal
    /\ events' = Append(events, ProcessingEvent(strI, strTotal))
    /\ strPc' = "detect"
    /\ UNCHANGED <<strI, strScores, deep>>
    /\ stream_unchanged

\* faulty variant: after the error event the loop goes on
stream_classified_continuing ==
    /\ strPc = "detect"
    /\ \E raised \in BOOLEAN : \E score \in LineScores :
         IF raised
         THEN /\ score = 100
              /\ events' = Append(events, ErrorEvent)
              /\ strPc' = "loop"
              /\ strI' = strI + 1
              /\ UNCHANGED strScores
         ELSE /\ strScores' = Append(strScores, score)
              /\ events' = Append(events, ClassifiedEvent(strI, strTotal, score))
              /\ strI' = strI + 1
              /\ strPc' = "loop"
    /\ UNCHANGED deep
    /\ stream_unchanged

\* the rest of the loop body: detection, line score, the classified event;
\* an exception ends the stream with the error event
stream_classified ==
    /\ strPc = "detect"
    /\ \E raised \in BOOLEAN : \E score \in LineScores :
         IF raised
         THEN /\ score = 100
              /\ events' = Append(events, ErrorEvent)
              /\ strPc' = "done"
              /\ UNCHANGED <<strI, strScores>>
         ELSE /\ strScores' = Append(strScores, score)
              /\ events' = Append(events, ClassifiedEvent(strI, strTotal, score))
              /\ strI' = strI + 1
              /\ strPc' = "loop"
    /\ UNCHANGED deep
    /\ stream_unchanged

\* after the loop: the DeepAnalysis row replaces the existing one, then the
\* complete event; a failing commit ends the stream with the error event
stream_complete ==
    /\ strPc = "loop"
    /\ strI = strTotal
    /\ \E raised \in BOOLEAN :
         IF raised
         THEN /\ events' = Append(events, ErrorEvent)
              /\ UNCHANGED deep
         ELSE /\ deep' = <<[total_lines |-> Len(strScores),
                            average_score |-> Average(strScores),
                            min_score |-> MinOf(strScores),
                            max_score |-> MaxOf(strScores)]>>
              /\ events' = Append(events, CompleteEvent(strTotal, strScores))
    /\ strPc' = "done"
    /\ UNCHANGED <<strI, strScores>>
    /\ stream_unchanged

StreamNext ==
    \/ stream_start
    \/ stream_processing
    \/ stream_classified
    \/ stream_complete

StreamSpec == StreamInit /\ [][StreamNext]_vars

(***************************************************************************)
(* The project specification: ProjectService of project_service.py.        *)
(***************************************************************************)
Range(s) == {s[i] : i \in 1..Len(s)}

Occurrences(s, t) == Cardinality({i \in 1..Len(s) : s[i] = t})

\* the agent lists a caller may pass
AgentLists == UNION {[1..k -> AgentTypes] : k \in 0..MaxAgents}

\* {pa.agent_type for pa in project.agents}
AgentSet == {t \in AgentTypes : projAgents[t] > 0}

ProjectInit ==
    /\ registry \in {{"compliance", "analytics", "voice"}, {"analytics", "voice"}}
    /\ projExists = FALSE
    /\ projAgents = NoAgents
    /\ projLast = [op |-> "none", agents |-> <<>>, before |-> NoAgents]
    /\ nops = 0
    /\ docChunks = 0
    /\ dbRules = {}
    /\ subStatus = "pending"
    /\ ledger = <<>>
    /\ checks = <<>>
    /\ thread = [g \in Graphs |-> NoThread]
    /\ call = "none"
    /\ pc = "idle"
    /\ st = EmptyState
    /\ tasks = <<>>
    /\ executed = <<>>
    /\ ncalls = 0
    /\ nruns = 0
    /\ last = Finished("none", "none", EmptyScores)
    /\ sv = <<>>
    /\ sp = <<>>
    /\ sres = NotScored
    /\ StreamIdle
    /\ OthersIdle

\* ProjectService.create_project(active_agents=T): one row per item of the
\* list whose type is in the registry; an empty list stands for ["compliance"]
create_project ==
    /\ ~projExists
    /\ nops < MaxOps
    /\ \E T \in AgentLists :
         LET active_agents == IF T = <<>> THEN <<"compliance">> ELSE T
         IN  /\ projAgents' = [t \in AgentTypes |->
                                  IF t \in registry THEN Occurrences(active_agents, t)
                                  ELSE 0]
             /\ projLast' = [op |-> "create", agents |-> T, before |-> projAgents]
    /\ projExists' = TRUE
    /\ nops' = nops + 1
    /\ UNCHANGED <<registry, wvars, svars, evars, ovars>>

\* faulty variant: the rows of the types not in the list are kept
update_project_keeping ==
    /\ nops < MaxOps
    /\ nops' = nops + 1
    /\ \E T \in AgentLists :
         IF ~projExists
         THEN /\ projLast' = [op |-> "update_missing", agents |-> T, before |-> projAgents]
              /\ UNCHANGED projAgents
         ELSE /\ projAgents' = [t \in AgentTypes |->
                                  IF projAgents[t] > 0 THEN projAgents[t]
                                  ELSE IF t \in Range(T) /\ t \in registry THEN 1
                                  ELSE 0]
              /\ projLast' = [op |-> "update", agents |-> T, before |-> projAgents]
    /\ UNCHANGED <<registry, projExists, wvars, svars, evars, ovars>>

\* ProjectService.update_project(active_agents=T) with a list: rows of types
\* not in set(T) are deleted, a row is added for each type of set(T) that has
\* none and is in the registry; None without a project
update_project ==
    /\ nops < MaxOps
    /\ nops' = nops + 1
    /\ \E T \in AgentLists :
         IF ~projExists
         THEN /\ projLast' = [op |-> "update_missing", agents |-> T, before |-> projAgents]
              /\ UNCHANGED projAgents
         ELSE /\ projAgents' = [t \in AgentTypes |->
                                  IF t \notin Range(T) THEN 0
                                  ELSE IF projAgents[t] > 0 THEN projAgents[t]
                                  ELSE IF t \in registry THEN 1
                                  ELSE 0]
              /\ projLast' = [op |-> "update", agents |-> T, before |-> projAgents]
    /\ UNCHANGED <<registry, projExists, wvars, svars, evars, ovars>>

\* ProjectService.update_project(active_agents=None): the agents are left alone
update_project_fields ==
    /\ projExists
    /\ nops < MaxOps
    /\ nops' = nops + 1
    /\ projLast' = [op |-> "update_fields", agents |-> <<>>, before |-> projAgents]
    /\ UNCHANGED <<projAgents, registry, projExists, wvars, svars, evars, ovars>>

ProjectNext ==
    \/ create_project
    \/ update_project
    \/ update_project_fields

ProjectSpec == ProjectInit /\ [][ProjectNext]_vars

(***************************************************************************)
(* The structured-output specification: one call of                        *)
(* LLMService.generate_structured_response of llm_service.py; an action is *)
(* the code between two awaits.                                            *)
(***************************************************************************)
max_retries == 3

\* what the completion call of an attempt gives: an exception of the client,
\* or a response whose text is bare or fenced and validates or does not
Completions ==
    [call : {"ok"}, fence : {"none", "json", "plain"}, valid : BOOLEAN]
    \cup {[call |-> "raised", fence |-> "none", valid |-> FALSE]}

\* response_text after the fences are cut away validates against output_model
Validates(completion) == completion.call = "ok" /\ completion.valid

StructuredInit ==
    /\ llmPc = "create"
    /\ attempt = 0
    /\ jsonBound = FALSE
    /\ history = <<>>
    /\ messages = 3
    /\ invocations = 0
    /\ record \in BOOLEAN
    /\ llmReturn = NoReturn
    /\ docChunks = 0
    /\ dbRules = {}
    /\ subStatus = "pending"
    /\ ledger = <<>>
    /\ checks = <<>>
    /\ thread = [g \in Graphs |-> NoThread]
    /\ call = "none"
    /\ pc = "idle"
    /\ st = EmptyState
    /\ tasks = <<>>
    /\ executed = <<>>
    /\ ncalls = 0
    /\ nruns = 0
    /\ last = Finished("none", "none", EmptyScores)
    /\ sv = <<>>
    /\ sp = <<>>
    /\ sres = NotScored
    /\ StreamIdle
    /\ ProjectIdle
    /\ SetupIdle

llm_unchanged == UNCHANGED <<record, wvars, svars, evars, pvars, cvars>>

\* the except clause of the loop body on exception e, json bound or not: the
\* clause evaluates json.JSONDecodeError, and json is a local name of the
\* function because of the import statement in the loop body
except_clause(e, bound) ==
    IF ~bound
    THEN /\ llmPc' = "raised"
         /\ llmReturn' = [kind |-> "raised", value |-> "UnboundLocalError"]
         /\ UNCHANGED messages
    ELSE IF attempt = max_retries - 1
    THEN /\ llmPc' = "raised"
         /\ llmReturn' = [kind |-> "raised", value |-> e]
         /\ UNCHANGED messages
    ELSE /\ llmPc' = "sleep"
         /\ messages' = messages + 2
         /\ UNCHANGED llmReturn

\* await client.chat.completions.with_raw_response.create(...), then up to
\* await self._log_to_json(...): import json is executed after the response
\* has been parsed
llm_create ==
    /\ llmPc = "create"
    /\ \E c \in Completions :
         /\ history' = Append(history, c)
         /\ IF c.call = "raised"
            THEN /\ except_clause("APIError", jsonBound)
                 /\ UNCHANGED jsonBound
            ELSE /\ jsonBound' = TRUE
                 /\ llmPc' = "validate"
                 /\ UNCHANGED <<messages, llmReturn>>
    /\ UNCHANGED <<attempt, invocations>>
    /\ llm_unchanged

\* after _log_to_json: the fences are cut, output_model.model_validate_json,
\* then await self._record_tool_invocation(...) if execution_id and db
llm_validate ==
    /\ llmPc = "validate"
    /\ IF Validates(history[Len(history)])
       THEN /\ llmPc' = IF record THEN "record" ELSE "returned"
            /\ llmReturn' = IF record THEN llmReturn
                            ELSE [kind |-> "returned", value |-> "validated"]
            /\ UNCHANGED messages
       ELSE except_clause("ValidationError", jsonBound)
    /\ UNCHANGED <<attempt, jsonBound, history, invocations>>
    /\ llm_unchanged

\* _record_tool_invocation: the row is written, or the write fails and the
\* failure is logged; return result
llm_record ==
    /\ llmPc = "record"
    /\ \E ok \in BOOLEAN : invocations' = IF ok THEN invocations + 1 ELSE invocations
    /\ llmPc' = "returned"
    /\ llmReturn' = [kind |-> "returned", value |-> "validated"]
    /\ UNCHANGED <<attempt, jsonBound, history, messages>>
    /\ llm_unchanged

\* await asyncio.sleep(1), then the next turn of the loop
llm_sleep ==
    /\ llmPc = "sleep"
    /\ attempt' = attempt + 1
    /\ llmPc' = "create"
    /\ UNCHANGED <<jsonBound, history, messages, invocations, llmReturn>>
    /\ llm_unchanged

StructuredNext ==
    \/ llm_create
    \/ llm_validate
    \/ llm_record
    \/ llm_sleep

StructuredSpec == StructuredInit /\ [][StructuredNext]_vars

(***************************************************************************)
(* The checkpointer specification: one ComplianceOrchestrator of           *)
(* orchestrator.py and the calls of its API, each of which starts with     *)
(* _ensure_checkpointer_setup.                                             *)
(***************************************************************************)
MaxApiCalls == 3

ApiMethods == {"run_workflow", "get_state", "update_state"}

\* step 3 of _build_graph: what it assigns to self.checkpointer and to
\* self._checkpointer_initialized; step 4 compiles the graph with that saver
_build_graph ==
    IF ~installed
    THEN [checkpointer |-> "memory", initialized |-> TRUE]   \* except ImportError
    ELSE IF ~redis_url_ok
    THEN [checkpointer |-> "memory", initialized |-> TRUE]   \* except Exception
    ELSE [checkpointer |-> "redis", initialized |-> FALSE]

\* __init__: self.checkpointer = None; self.graph = self._build_graph()
SetupInit ==
    /\ installed \in BOOLEAN
    /\ redis_url_ok \in BOOLEAN
    /\ checkpointer = _build_graph.checkpointer
    /\ _checkpointer_initialized = _build_graph.initialized
    /\ graph_checkpointer = _build_graph.checkpointer
    /\ apiLog = <<>>
    /\ LlmIdle
    /\ docChunks = 0
    /\ dbRules = {}
    /\ subStatus = "pending"
    /\ ledger = <<>>
    /\ checks = <<>>
    /\ thread = [g \in Graphs |-> NoThread]
    /\ call = "none"
    /\ pc = "idle"
    /\ st = EmptyState
    /\ tasks = <<>>
    /\ executed = <<>>
    /\ ncalls = 0
    /\ nruns = 0
    /\ last = Finished("none", "none", EmptyScores)
    /\ sv = <<>>
    /\ sp = <<>>
    /\ sres = NotScored
    /\ StreamIdle
    /\ ProjectIdle

\* _ensure_checkpointer_setup, then the method of self.graph: the except
\* branch assigns the MemorySaver and the flag and then calls _build_graph,
\* whose step 3 assigns both again
api_call ==
    /\ Len(apiLog) < MaxApiCalls
    /\ \E method \in ApiMethods :
         /\ IF _checkpointer_initialized
            THEN /\ UNCHANGED <<checkpointer, _checkpointer_initialized, graph_checkpointer>>
                 /\ apiLog' = Append(apiLog, [method |-> method, setup |-> "skipped",
                                               saver |-> graph_checkpointer])
            ELSE \E raised \in BOOLEAN :
                   IF ~raised
                   THEN /\ _checkpointer_initialized' = TRUE
                        /\ UNCHANGED <<checkpointer, graph_checkpointer>>
                        /\ apiLog' = Append(apiLog, [method |-> method, setup |-> "done",
                                                      saver |-> graph_checkpointer])
                   ELSE /\ checkpointer' = _build_graph.checkpointer
                        /\ _checkpointer_initialized' = _build_graph.initialized
                        /\ graph_checkpointer' = _build_graph.checkpointer
                        /\ apiLog' = Append(apiLog, [method |-> method, setup |-> "failed",
                                                      saver |-> _build_graph.checkpointer])
    /\ UNCHANGED <<installed, redis_url_ok, lvars, wvars, svars, evars, pvars>>

SetupNext == api_call

SetupSpec == SetupInit /\ [][SetupNext]_vars

(***************************************************************************)
(* Properties.                                                             *)
(***************************************************************************)
RunCalls == {"analyze_submission", "run_workflow"}
ResumeCalls == {"resume_submission", "hitl_resume_submission", "run_workflow_resume"}
\* the evaluation step and the scoring step of the two graphs
Dispatchers == {"compliance_specialist", "analysis_node"}
Scorers == {"enterprise_architect", "scoring_node"}

InSeq(x, s) == \E i \in 1..Len(s) : s[i] = x
Ran(nodes) == \E i \in 1..Len(executed) : executed[i] \in nodes

\* snapshot.next of the thread is not empty: a step is pending
ReviewPending(g) ==
    HasCheckpointer(g) /\ thread[g].exists /\ thread[g].next \notin {"END", None}

FailedTasks == {k \in 1..Len(tasks) : tasks[k].status = "failed"}

\* C1: a run whose graph invocation ends without an exception has stopped
\* after scoring with the human review step pending
C1_RunStopsForReview ==
    (call \in RunCalls /\ pc = "returned") => ReviewPending(GraphOf(call))

C3_TaskFailureContained ==
    \A k \in FailedTasks :
        /\ tasks[k].violations = <<>>
        /\ ledger[tasks[k].exec].status = "failed"
        /\ pc # "raised"
        /\ Ran(Dispatchers) =>
              /\ Len(tasks) = Len(TaskList(st))
              /\ \A j \in 1..Len(tasks) : tasks[j].status \in {"completed", "failed"}

C3_Witness ==
    /\ Ran(Dispatchers)
    /\ \E k \in FailedTasks : \E j \in 1..Len(tasks) :
         /\ j > k
         /\ tasks[j].status = "completed"
         /\ tasks[j].violations # <<>>
         /\ InSeq(tasks[j].violations[1], st.violations)

\* C4: a run with K failed tasks out of N x M ends pending human review, with
\* exactly the violations of the completed tasks and exactly K failed ledger
\* entries
C4_PartialFailureReachesReview ==
    (call \in RunCalls /\ pc = "returned" /\ FailedTasks # {})
    => /\ ReviewPending(GraphOf(call))
       /\ st.violations = TaskViolations(tasks)
       /\ Cardinality({i \in 1..Len(ledger) : ledger[i].status = "failed"})
              = Cardinality(FailedTasks)

\* C5: a call that ended in an exception leaves the submission failed and no
\* check or violation record
C5_ExceptionMarksFailed ==
    last.outcome = "raised" => (subStatus = "failed" /\ checks = <<>>)

\* C6: once segmentation has failed the invocation is over: no step is about
\* to execute and none has executed after it
C6_InfrastructureFailureAborts ==
    (call # "none" /\ st.status = "failed")
    => /\ pc \in {"returned", "raised"}
       /\ \A i \in 1..Len(executed) : executed[i] = "preprocess_node"

\* C7: calculate_scores gives the same result, field by field, for every
\* ordering of the same violations
C7_PermutationInvariant ==
    sres.computed => sres.result = calculate_scores(sv)

C7_Witness ==
    /\ sres.computed
    /\ Len(sv) = MaxScoreLen
    /\ sp # sv
    /\ sp[1].category # sv[1].category
    /\ sres.result.overall < 10000

IsPrefix(a, b) == Len(a) <= Len(b) /\ SubSeq(b, 1, Len(a)) = a

\* C13: in every step of an invocation the violations of the state are the
\* old list with zero or more items appended, in the state in flight and in
\* the saved thread, and an invocation starts from the list the thread holds
C13_ViolationsOnlyGrow ==
    [][ /\ (call # "none" /\ call' = call)
           => IsPrefix(st.violations, st'.violations)
        /\ \A g \in Graphs :
              thread[g].exists
              => /\ thread'[g].exists
                 /\ IsPrefix(thread[g].values.violations, thread'[g].values.violations)
        /\ (call = "none" /\ call' # "none" /\ thread[GraphOf(call')].exists)
           => IsPrefix(thread[GraphOf(call')].values.violations, st'.violations) ]_vars

C13_Witness ==
    /\ Ran(Scorers)
    /\ Len(st.violations) >= 2
    /\ st.violations[1].chunk_id # st.violations[2].chunk_id
    /\ \E i \in 1..Len(st.violations) : st.violations[i].severity = "low"

TerminalRows == {i \in 1..Len(ledger) : ledger[i].status \in {"completed", "failed"}}

\* C14: every task has exactly one ledger entry of its own, and a terminal
\* entry carries its end time and, when completed, the output payload
C14_LedgerEntryComplete ==
    /\ \A k \in 1..Len(tasks) :
          /\ tasks[k].exec \in 1..Len(ledger)
          /\ ledger[tasks[k].exec].status = tasks[k].status
          /\ \A j \in 1..Len(tasks) : tasks[j].exec = tasks[k].exec => j = k
    /\ \A i \in TerminalRows :
          /\ ledger[i].completed_at
          /\ ledger[i].status = "completed" => ledger[i].output = "result"


SnapshotExists == HasCheckpointer(compliance_graph) /\ thread[compliance_graph].exists

IsTerminal(e) == e.status \in {"complete", "error"}
HasProgress(e) == "progress" \in DOMAIN e
HasStatistics(e) == {"average_score", "min_score", "max_score"} \subseteq DOMAIN e

\* the per-line events of the stream, and the scores of the classified ones
LineEvents == SelectSeq(events, LAMBDA e : e.status \in {"processing", "classified"})
ClassifiedScores ==
    LET cl == SelectSeq(events, LAMBDA e : e.status = "classified")
    IN  [m \in 1..Len(cl) |-> cl[m].score]

\* line by line in document order, a processing then a classified event per
\* line, progress never decreasing
StreamInOrder ==
    /\ \A m \in 1..Len(LineEvents) :
          /\ LineEvents[m].status = IF m % 2 = 1 THEN "processing" ELSE "classified"
          /\ LineEvents[m].current_index = (m + 1) \div 2
    /\ \A m, n \in 1..Len(events) :
          (m < n /\ HasProgress(events[m]) /\ HasProgress(events[n]))
          => events[m].progress <= events[n].progress

\* a terminal event is the last event, and the stream is over exactly when
\* it has emitted one
StreamEndsOnce ==
    /\ \A m \in 1..Len(events) :
          IsTerminal(events[m]) => (m = Len(events) /\ strPc = "done")
    /\ strPc = "done" => (events # <<>> /\ IsTerminal(events[Len(events)]))

\* C17 as stated: ordered, one terminal event at the end, and every complete
\* event carries average/min/max score after every line was classified
C17_CompleteCarriesStatistics ==
    /\ StreamInOrder
    /\ StreamEndsOnce
    /\ \A m \in 1..Len(events) :
          events[m].status = "complete"
          => /\ HasStatistics(events[m])
             /\ Len(ClassifiedScores) = strTotal

\* C17 amended: ordered, one terminal event at the end; the complete event
\* of a document with lines comes after every line was classified and
\* carries the average, minimum and maximum of the classified scores; the
\* complete event of a document without lines is the only event and carries
\* no statistics
C17_StreamEndsOnce ==
    /\ StreamInOrder
    /\ StreamEndsOnce
    /\ \A m \in 1..Len(events) :
          events[m].status = "complete"
          => IF strTotal = 0
             THEN events = <<EmptyCompleteEvent>>
             ELSE /\ Len(ClassifiedScores) = strTotal
                  /\ HasStatistics(events[m])
                  /\ events[m].average_score = Average(ClassifiedScores)
                  /\ events[m].min_score = MinOf(ClassifiedScores)
                  /\ events[m].max_score = MaxOf(ClassifiedScores)
                  /\ events[m].progress = 1000
    /\ (strTotal = 0 /\ strDb = "ok" /\ strPc = "done")
       => events \in {<<EmptyCompleteEvent>>, <<ErrorEvent>>}

C17_Witness ==
    /\ strPc = "done"
    /\ strTotal = MaxLines
    /\ events[Len(events)].status = "complete"
    /\ events[Len(events)].min_score < events[Len(events)].max_score
    /\ Len(LineEvents) = 2 * MaxLines

\* the last operation was given a list whose types are all in the registry
ListRegistered == Range(projLast.agents) \subseteq registry

\* after an update no type has more rows than before, or than one if it had
\* none, and a type of the list that was attached keeps its rows
NoDuplication ==
    projLast.op = "update"
    => \A t \in AgentTypes :
          /\ projAgents[t] <= Max(1, projLast.before[t])
          /\ (t \in Range(projLast.agents) /\ projLast.before[t] > 0)
             => projAgents[t] = projLast.before[t]

\* C18 as stated: after create_project or update_project with a list T of
\* registered types the project's set of agent types equals T
C18_AgentsEqualList ==
    /\ (projLast.op \in {"create", "update"} /\ ListRegistered)
       => AgentSet = Range(projLast.agents)
    /\ NoDuplication

\* C18 amended: the same, except that create_project with an empty list
\* attaches the default agent "compliance" when it is in the registry; and
\* an update without a list leaves the agents as they were
C18_AgentsMatchList ==
    /\ (projLast.op \in {"create", "update"} /\ ListRegistered)
       => AgentSet = IF projLast.op = "create" /\ projLast.agents = <<>>
                     THEN {"compliance"} \cap registry
                     ELSE Range(projLast.agents)
    /\ NoDuplication
    /\ projLast.op \in {"update_fields", "update_missing"}
       => projAgents = projLast.before

C18_Witness ==
    /\ projLast.op = "update"
    /\ nops = MaxOps
    /\ ListRegistered
    /\ \E t \in Range(projLast.agents) : projLast.before[t] = 0
    /\ \E t \in Range(projLast.agents) : projLast.before[t] > 0
    /\ \E t \in AgentTypes : projLast.before[t] > 0 /\ projAgents[t] = 0

\* the steps from the k-th on, n of them, in the order of the graph's edges
Slice(g, k, n) == SubSeq(NodeOrder(g), k, k + n - 1)

\* C19: the steps an invocation has executed are consecutive steps of the
\* graph in the order of its edges, none skipped and none twice, a run starts
\* with the first step, a resume with the step the thread has pending, and the
\* step about to execute is the next one; the
\* scoring step starts only when the evaluation step has returned and every
\* task it dispatched is completed or failed
C19_StepsInOrderAfterJoin ==
    call # "none" =>
       LET g == GraphOf(call)
       IN  /\ \E k \in 1..Len(NodeOrder(g)) :
                /\ k + Len(executed) - 1 <= Len(NodeOrder(g))
                /\ executed = Slice(g, k, Len(executed))
                /\ call \in RunCalls => k = 1
                /\ (call = "run_workflow_resume" /\ pc \in Range(NodeOrder(g)))
                   => thread[g].next = pc
                /\ (HasCheckpointer(g) /\ executed # <<>>)
                   => thread[g].next = Successor(g, executed[Len(executed)])
                /\ pc \in Range(NodeOrder(g)) \cup {"gather"}
                   => NodeOrder(g)[k + Len(executed)] = IF pc = "gather" THEN "analysis_node" ELSE pc
           /\ (pc \in Scorers \/ Ran(Scorers))
              => /\ Ran(Dispatchers)
                 /\ \A i \in 1..Len(tasks) : tasks[i].status \in {"completed", "failed"}

C19_Witness ==
    /\ call = "run_workflow"
    /\ pc = "returned"
    /\ executed = <<"preprocess_node", "dispatch_node", "analysis_node", "scoring_node">>
    /\ Len(tasks) >= 2
    /\ \E i, j \in 1..Len(tasks) : tasks[i].status = "completed" /\ tasks[j].status = "failed"

\* the number of violations of a category and a severity in a list
CountOf(violations, category, severity) ==
    Cardinality({i \in 1..Len(violations) :
                    violations[i].category = category
                    /\ violations[i].severity = severity})

\* the points the reference algorithm takes from a category
ReferenceDeduction(violations, category) ==
    20 * CountOf(violations, category, "critical")
    + 10 * CountOf(violations, category, "high")
    + 3 * CountOf(violations, category, "medium")
    + 2 * CountOf(violations, category, "low")

ReferenceCategory(violations, category) ==
    Max(0, 100 - ReferenceDeduction(violations, category))

\* the reference overall score in hundredths: weights 0.50, 0.30, 0.20
ReferenceOverall(violations) ==
    50 * ReferenceCategory(violations, "irdai")
    + 30 * ReferenceCategory(violations, "brand")
    + 20 * ReferenceCategory(violations, "seo")

\* every violation of the list has one of the four severities
KnownSeverities(violations) ==
    \A i \in 1..Len(violations) : violations[i].severity \in Severities

\* C20: for a list of violations with the four severities calculate_scores
\* gives the category scores and the overall score of the reference
\* algorithm; the category weights sum to 1.0, and for every list the
\* category scores and the overall score lie in [0, 100]
C20_MatchesReference ==
    sres.computed =>
       /\ KnownSeverities(sp)
          => /\ sres.result.irdai = ReferenceCategory(sp, "irdai")
             /\ sres.result.brand = ReferenceCategory(sp, "brand")
             /\ sres.result.seo = ReferenceCategory(sp, "seo")
             /\ sres.result.overall = ReferenceOverall(sp)
       /\ CATEGORY_WEIGHTS("irdai") + CATEGORY_WEIGHTS("brand") + CATEGORY_WEIGHTS("seo") = 100
       /\ \A c \in {"irdai", "brand", "seo"} : sres.result[c] \in 0..100
       /\ sres.result.overall \in 0..10000

C20_Witness ==
    /\ sres.computed
    /\ KnownSeverities(sp)
    /\ \E c \in {"irdai", "brand", "seo"} :
         ReferenceDeduction(sp, c) > 100 /\ sres.result[c] = 0
    /\ \E i, j \in 1..Len(sp) :
         /\ sp[i].severity = "medium" /\ sp[j].severity = "low"
         /\ sp[i].category = sp[j].category
         /\ sres.result[sp[i].category] = 95

\* the grade the thresholds give an overall score in hundredths
GradeOf(overall) ==
    IF overall >= 9000 THEN "A"
    ELSE IF overall >= 8000 THEN "B"
    ELSE IF overall >= 7000 THEN "C"
    ELSE IF overall >= 6000 THEN "D"
    ELSE "F"

\* the status the thresholds give a list and an overall score in hundredths
StatusOf(violations, overall) ==
    IF (\E i \in 1..Len(violations) : violations[i].severity = "critical")
       \/ overall < 6000
    THEN "failed"
    ELSE IF overall < 8000 THEN "flagged"
    ELSE "passed"

\* C21: the grade and the status of a result are the threshold functions of
\* its overall score: A from 90, B from 80, C from 70, D from 60, else F;
\* failed with a critical violation or below 60, else flagged below 80, else
\* passed
C21_GradeAndStatusByThreshold ==
    sres.computed =>
       /\ sres.result.grade = GradeOf(sres.result.overall)
       /\ sres.result.status = StatusOf(sp, sres.result.overall)

\* the evaluation step is about to run, is running or has run
Dispatching == call # "none" /\ (pc \in Dispatchers \cup {"gather"} \/ Ran(Dispatchers))

\* the (chunk, category) pairs of the tasks started
TaskPairs == {<<tasks[k].chunk, tasks[k].category>> : k \in 1..Len(tasks)}

\* the tasks started are one per pair, and the pairs are those of a chunk of
\* the state and a category of the rules with at least one rule
OneTaskPerPair ==
    /\ Cardinality(TaskPairs) = Len(tasks)
    /\ TaskPairs \subseteq
          {<<st.chunks[i], c>> : i \in 1..Len(st.chunks),
                                 c \in {d \in DOMAIN st.active_rules : st.active_rules[d] > 0}}
    /\ (pc = "gather" \/ Ran(Dispatchers))
       => Len(tasks) = Len(st.chunks)
                       * Cardinality({d \in DOMAIN st.active_rules : st.active_rules[d] > 0})

\* C22: in the rules the evaluation step reads, a category without an active
\* rule is a key with an empty list, and the step starts exactly one task per
\* pair of a chunk and a category with a rule
C22_EmptyCategoriesPresent ==
    Dispatching =>
       /\ \A c \in {"irdai", "brand", "seo"} :
             /\ c \in DOMAIN st.active_rules
             /\ c \notin dbRules => st.active_rules[c] = 0
       /\ OneTaskPerPair

\* C23: every violation a task returned has the category of the task
C23_CategoryMatchesTask ==
    \A k \in 1..Len(tasks) :
       \A i \in 1..Len(tasks[k].violations) :
          tasks[k].violations[i].category = tasks[k].category

\* the violations the tasks returned and those of the state
Returned == Range(TaskViolations(tasks)) \cup Range(st.violations)

\* C24: every violation a task returned carries the chunk id and chunk index
\* of the task's chunk and the location built from that chunk, whatever
\* location the output had; a violation of the state refers to a chunk of the
\* state's list, and two violations of one chunk have the same location
C24_LocationFromUnit ==
    /\ \A k \in 1..Len(tasks) :
          \A i \in 1..Len(tasks[k].violations) :
             LET v == tasks[k].violations[i]
             IN  /\ v.chunk_id = tasks[k].chunk
                 /\ v.chunk_index = tasks[k].chunk
                 /\ v.location \in {Location(tasks[k].chunk), PlainLocation(tasks[k].chunk)}
    /\ \A v \in Range(st.violations) :
          \E i \in 1..Len(st.chunks) :
             st.chunks[i] = v.chunk_id /\ v.location[2] = st.chunks[i]
    /\ \A v, w \in Returned : v.chunk_id = w.chunk_id => v.location = w.location

C24_Witness ==
    /\ call = "run_workflow"
    /\ Ran(Scorers)
    /\ \E i, j \in 1..Len(st.violations) :
         /\ i # j
         /\ st.violations[i].chunk_id = st.violations[j].chunk_id
         /\ st.violations[i].category # st.violations[j].category
         /\ Len(st.violations[i].location) = 4
    /\ \E i \in 1..Len(st.violations) : Len(st.violations[i].location) = 2

\* the attempts that failed: the completion call raised or the text did not
\* validate
FailedAttempts == {i \in 1..Len(history) : ~Validates(history[i])}

\* C25: generate_structured_response makes at most max_retries attempts, one
\* at a time; it returns only a validated result, that of the first attempt
\* that validates, and it raises only after the third failed attempt
C25_BoundedRetry ==
    /\ Len(history) <= max_retries
    /\ Len(history) \in {attempt, attempt + 1}
    /\ llmReturn.kind = "returned"
       => /\ llmReturn.value = "validated"
          /\ Validates(history[Len(history)])
          /\ FailedAttempts = 1..(Len(history) - 1)
    /\ llmReturn.kind = "raised"
       => /\ Len(history) = max_retries
          /\ FailedAttempts = 1..max_retries

\* the tasks in the running state
Running == {k \in 1..Len(tasks) : tasks[k].status = "running"}

\* C26: at every moment at most ConcurrencyLimit tasks are running, however
\* many chunks and categories there are
C26_BoundedConcurrency == Cardinality(Running) <= ConcurrencyLimit

\* the category and severity of each violation of a list, in order
Bare(vs) ==
    [i \in 1..Len(vs) |-> [category |-> vs[i].category, severity |-> vs[i].severity]]

\* C27: with ledger commits that may raise, every task that has ended was
\* evaluated, and a task whose evaluator returned a result hands exactly the
\* violations of that result to the dispatcher.
C27_LedgerFaultsOffCriticalPath ==
    \A k \in 1..Len(tasks) :
        tasks[k].status # "running" =>
            /\ tasks[k].answer.evaluated
            /\ ~tasks[k].answer.raised =>
                   Bare(tasks[k].violations) = Bare(tasks[k].answer.result)

\* a call of the orchestrator whose checkpointer setup raised
SetupFailed == \E i \in 1..Len(apiLog) : apiLog[i].setup = "failed"

\* C28: once the checkpointer setup has failed, the flag is set, the
\* orchestrator's checkpointer and the one of its graph are the MemorySaver,
\* the failing call and every later call use the MemorySaver, and no later
\* call runs the setup again.
C28_FallbackForGood ==
    SetupFailed =>
        /\ _checkpointer_initialized
        /\ checkpointer = "memory"
        /\ graph_checkpointer = "memory"
        /\ \A i \in 1..Len(apiLog) : \A j \in i..Len(apiLog) :
               apiLog[i].setup = "failed" =>
                   /\ apiLog[j].saver = "memory"
                   /\ j > i => apiLog[j].setup = "skipped"

\* C29: in a run started by run_workflow, once the evaluation step has
\* returned the state's violations are the violations of the tasks of this
\* run, each once and in task order, whatever the thread held before.
C29_RerunStartsClean ==
    (call = "run_workflow" /\ Ran({"analysis_node"})) =>
        st.violations = TaskViolations(tasks)

\* the violations of a list whose category has a weight
Weighted(violations) ==
    SelectSeq(violations, LAMBDA v : v.category \in {"irdai", "brand", "seo"})

\* C30: the overall score and the three category scores of a list are those
\* of the list without its violations of categories that have no weight, and
\* a critical violation of such a category gives status failed.
C30_UnweightedCategory ==
    sres.computed =>
        LET reference == calculate_scores(Weighted(sp))
        IN  /\ sres.result.overall = reference.overall
            /\ \A c \in {"irdai", "brand", "seo"} : sres.result[c] = reference[c]
            /\ (\E i \in 1..Len(sp) :
                   /\ sp[i].category \notin {"irdai", "brand", "seo"}
                   /\ sp[i].severity = "critical")
                => sres.result.status = "failed"

\* a list of two violations without a weight, one critical and one high, is
\* scored 100 everywhere and failed
C30_Witness ==
    /\ sres.computed
    /\ Len(sp) = 2
    /\ Weighted(sp) = <<>>
    /\ \E i, j \in 1..2 : sp[i].severity = "critical" /\ sp[j].severity = "high"
    /\ sres.result.overall = 10000
    /\ \A c \in {"irdai", "brand", "seo"} : sres.result[c] = 100
    /\ sres.result.status = "failed"

====
